---- MODULE Spec2Model ----
(***************************************************************************)
(* The essay processing pipeline of the essay-grading assistant: the       *)
(* essay collection and the handlers of App.tsx (upload, start queue,      *)
(* batch grade, single-essay start, retry, cancel, edit, delete), the      *)
(* grading agent of aiAgent.ts and the persistence layer.                  *)
(*                                                                         *)
(* Handlers are asynchronous: an action of the model is the part of a      *)
(* handler that runs between two suspension points.  A continuation that   *)
(* is resumed by a promise which is already settled (a microtask) runs     *)
(* before any user event or network completion; the model marks a run in   *)
(* that position as "next" and lets nothing else act until it has moved.   *)
(***************************************************************************)
EXTENDS Integers, Sequences, FiniteSets, TLC

VARIABLES essays, nextId, abortControllers, isProcessing, workflowMode,
          env, tracked, runs, nextBatch, starts, issued, ended,
          storage, timeouts, ocr, client, agent

vars == <<essays, nextId, abortControllers, isProcessing, workflowMode,
          env, tracked, runs, nextBatch, starts, issued, ended,
          storage, timeouts, ocr, client, agent>>

----------------------------------------------------------------------------
(* Bounds.  starts counts the handler calls and edits made so far; an    *)
(* upload counts as UploadCost of them, and MaxWork bounds the total.     *)

MaxEssays == 2
MaxRuns == 2
MaxWork == 6
UploadCost == 2
\* status polls followed in one call of the OCR client
MaxPolls == 4

EssayIds == 1..MaxEssays
RunIds == 1..MaxRuns

----------------------------------------------------------------------------
(* Values *)

Undef == "undefined"

PENDING == "PENDING"
PROCESSING == "PROCESSING"
COMPLETED == "COMPLETED"
ERROR == "ERROR"
CANCELLED == "CANCELLED"

WorkflowModes == {"auto", "ocr_only", "ai_only"}

\* Texts: the empty string, a whitespace-only string, and distinct contents.
RawText == "raw"
OcrTranscript == "ocr"
ModelText == "llm"
EditTexts == {"", "ws", "edit"}

Truthy(v) == v /= "" /\ v /= Undef

Or(a, b) == IF Truthy(a) THEN a ELSE b

\* e.f, undefined when the record has no such field
Get(e, f) == IF f \in DOMAIN e THEN e[f] ELSE Undef

Trim(t) == IF t = "ws" \/ t = Undef THEN "" ELSE t

NoCtrl == <<0, 0>>

\* an essay that no run has tagged has no batchId
NoBatch == 0

\* Messages
MsgQueue == "Waiting in queue"
MsgOcrRunning == "ocr running"
MsgOcrDoneToAi == "ocr done, preparing grading"
MsgOcrDoneWait == "ocr done, waiting for grading"
MsgUserCancelled == "cancelled by user"
MsgCancelDone == "grading cancelled"
MsgOcrFailed == "ocr failed"
MsgGradingRunning == "grading running"
MsgGradingRetry == "grading retry running"
MsgGradingDone == "grading complete"
MsgNoText == "no text to grade, finish ocr first"
MsgNoFile == "No file provided for image submission"
MsgProcessingFailed == "Processing failed"

\* Failures of the OCR client and of the model router, by error message.
MsgOcrKeyMissing == "Handwriting OCR API key is missing"
MsgKeyMissing == "API key is missing"
OcrFailures == {"OCR upload failed"}
GradingFailures == {"request failed", "Unexpected token"}
AbortError == "Processing cancelled"
\* Provider replies that parse as JSON: with a grading result and the
\* model's own ocrText, with a grading result only, and without a result.
GradingReplies == {"full", "result_only", "no_result"}

----------------------------------------------------------------------------
(* Essay records *)

ImageEssay(id) ==
  [id |-> id, submissionType |-> "image", file |-> TRUE,
   rawText |-> Undef, ocrText |-> "", status |-> PENDING,
   ocrStatus |-> "idle", gradingStatus |-> "idle",
   progressStep |-> "queued", progressMessage |-> MsgQueue,
   errorMessage |-> Undef, gradingResult |-> Undef, batchId |-> NoBatch]

TextEssay(id) ==
  [id |-> id, submissionType |-> "text", file |-> FALSE,
   rawText |-> RawText, ocrText |-> "", status |-> PENDING,
   ocrStatus |-> "skipped", gradingStatus |-> "idle",
   progressStep |-> "queued", progressMessage |-> MsgQueue,
   errorMessage |-> Undef, gradingResult |-> Undef, batchId |-> NoBatch]

MarkdownEssay(id) ==
  [id |-> id, submissionType |-> "markdown", file |-> TRUE,
   rawText |-> RawText, ocrText |-> RawText, status |-> PENDING,
   ocrStatus |-> "done", gradingStatus |-> "idle",
   progressStep |-> "queued", progressMessage |-> MsgQueue,
   errorMessage |-> Undef, gradingResult |-> Undef, batchId |-> NoBatch]

\* { ...e, ...payload } for a payload given as a function on some fields.
\* An essay is created without the optional batchId key and only
\* markBatchTargets writes it: a payload spread from an untagged essay has
\* no such key and leaves the tag of e as it is.
Merge(e, payload) ==
  [f \in DOMAIN e |->
     IF f \in DOMAIN payload /\ ~(f = "batchId" /\ payload[f] = NoBatch)
     THEN payload[f] ELSE e[f]]

\* setEssays(prev => prev.map(e => e.id === id ? { ...e, ...payload } : e))
updateEssay(es, id, payload) ==
  [i \in 1..Len(es) |-> IF es[i].id = id THEN Merge(es[i], payload) ELSE es[i]]

hasTextContent(e) ==
  Truthy(Trim(e.rawText)) \/ Truthy(Trim(e.ocrText))

IdsOf(es) == {es[i].id : i \in 1..Len(es)}

EssayOf(es, id) == es[CHOOSE i \in 1..Len(es) : es[i].id = id]

RECURSIVE Filter(_, _)
Filter(es, keep) ==
  IF es = <<>> THEN <<>>
  ELSE IF Head(es).id \in keep THEN <<Head(es)>> \o Filter(Tail(es), keep)
       ELSE Filter(Tail(es), keep)

----------------------------------------------------------------------------
(* The grading agent (aiAgent.ts) *)

\* the essay runGradingStep hands to the agent
AgentArg(essay) ==
  [essay EXCEPT !.ocrText = Or(Or(essay.ocrText, essay.rawText), "")]

\* let textForModel = essay.rawText || essay.ocrText || ""
TextForModel(arg) == Or(Or(arg.rawText, arg.ocrText), "")

\* buildPromptBundle: the essay text placed in the prompt
BaseText(arg) == Trim(Or(TextForModel(arg), arg.rawText))

\* runGradingStep without the skipOcr option
SkipOcrOmitted == FALSE

\* options.skipOcr as runGradingStep passes it
GradingSkipOcr == TRUE

\* the agent transcribes by itself only for an image with a file, unless told
\* to skip
AgentRunsOcr(arg, skipOcr) ==
  arg.submissionType = "image" /\ arg.file /\ ~skipOcr

IsCancelled(msg) == msg = AbortError

\* processEssayAgent, success branch: reply is the parsed JSON, text is
\* textForModel
AgentSuccess(arg, text, reply) ==
  Merge(arg,
    [status |-> COMPLETED,
     ocrText |-> Or(Or(IF reply = "full" THEN ModelText ELSE Undef, text),
                    Or(arg.rawText, "")),
     gradingResult |-> IF reply = "no_result" THEN Undef ELSE "result",
     progressStep |-> "done",
     progressMessage |-> MsgGradingDone])

\* a catch branch that returns the essay without a new status
AgentFailureKeepsStatus(arg, text, msg) ==
  Merge(arg,
    [ocrText |-> Or(Or(text, arg.ocrText), Or(arg.rawText, "")),
     errorMessage |-> Or(msg, MsgProcessingFailed)])

\* processEssayAgent, catch branch: every failure resolves with an essay
AgentFailure(arg, text, msg) ==
  Merge(arg,
    [status |-> IF IsCancelled(msg) THEN CANCELLED ELSE ERROR,
     ocrText |-> Or(Or(text, arg.ocrText), Or(arg.rawText, "")),
     progressStep |-> IF IsCancelled(msg) THEN "cancelled" ELSE "error",
     progressMessage |-> IF IsCancelled(msg) THEN MsgUserCancelled
                         ELSE Get(arg, "progressMessage"),
     errorMessage |-> IF IsCancelled(msg) THEN MsgUserCancelled
                      ELSE Or(msg, MsgProcessingFailed)])

\* the call with skipOcr, as runGradingStep makes it: textForModel stays as
\* it starts
processEssayAgent(arg, outcome) ==
  IF outcome \in GradingReplies
  THEN AgentSuccess(arg, TextForModel(arg), outcome)
  ELSE AgentFailure(arg, TextForModel(arg), outcome)

\* One call of processEssayAgent, step by step.  pc is "idle", "ocr"
\* (transcribeHandwriting in flight), "read" (fileToBase64 in flight),
\* "model" (the provider request in flight) or "resolved"; text is
\* textForModel, out the essay the promise resolves with.
NewAgentCall(essay, skipOcr, aborted) ==
  [pc |-> "idle", essay |-> essay, skipOcr |-> skipOcr, aborted |-> aborted,
   text |-> TextForModel(essay), failed |-> Undef, out |-> <<>>]

\* return from the try block or from the catch block
AgentResolves(a, outcome) ==
  [a EXCEPT !.pc = "resolved",
            !.failed = IF outcome \in GradingReplies THEN Undef ELSE outcome,
            !.out = IF outcome \in GradingReplies
                    THEN AgentSuccess(a.essay, a.text, outcome)
                    ELSE AgentFailure(a.essay, a.text, outcome)]

\* routeModel up to the provider's fetch: the signal, then the key
AgentRoute(a, keyed) ==
  IF a.aborted THEN AgentResolves(a, AbortError)
  ELSE IF ~keyed THEN AgentResolves(a, MsgKeyMissing)
  ELSE [a EXCEPT !.pc = "model"]

\* the second check of the signal, then buildPromptBundle with textForModel
AgentPrompt(a, keyed) ==
  IF a.aborted THEN AgentResolves(a, AbortError)
  ELSE IF Trim(Or(a.text, a.essay.rawText)) /= "" THEN AgentRoute(a, keyed)
  ELSE IF ~a.essay.file THEN AgentResolves(a, MsgNoFile)
  ELSE [a EXCEPT !.pc = "read"]

\* the first check of the signal, then the OCR the agent runs by itself
AgentEntry(a, keyed) ==
  IF a.aborted THEN AgentResolves(a, AbortError)
  ELSE IF AgentRunsOcr(a.essay, a.skipOcr) THEN [a EXCEPT !.pc = "ocr"]
  ELSE AgentPrompt(a, keyed)

----------------------------------------------------------------------------
(* The steps of App.tsx as functions on the essay list *)

registerController(reg, id, ctrl) == [reg EXCEPT ![id] = ctrl]

\* a step end that leaves the controller in the registry
KeepController(reg, id) == reg

cleanupController(reg, id) == [reg EXCEPT ![id] = NoCtrl]

\* runOcrStep up to the call of transcribeHandwriting
OcrStepBegin(es, essay) ==
  updateEssay(es, essay.id,
    [status |-> PROCESSING, ocrStatus |-> "processing",
     progressStep |-> "ocr", progressMessage |-> MsgOcrRunning])

\* runOcrStep: the essay it returns when the transcript arrived
OcrUpdated(essay, text, continueToAi) ==
  Merge(essay,
    [ocrText |-> text, ocrStatus |-> "done", progressStep |-> "ocr_complete",
     progressMessage |-> IF continueToAi THEN MsgOcrDoneToAi ELSE MsgOcrDoneWait,
     status |-> IF continueToAi THEN PROCESSING ELSE PENDING])

\* runOcrStep, catch branch
OcrStepFail(es, essay, msg) ==
  updateEssay(es, essay.id,
    [status |-> IF IsCancelled(msg) THEN CANCELLED ELSE ERROR,
     ocrStatus |-> IF IsCancelled(msg) THEN "skipped" ELSE "error",
     progressStep |-> IF IsCancelled(msg) THEN "cancelled" ELSE "error",
     progressMessage |-> IF IsCancelled(msg) THEN MsgUserCancelled
                         ELSE Or(msg, MsgOcrFailed),
     errorMessage |-> msg])

\* runGradingStep up to the first suspension of the agent: the status update
\* and the agent's first progress callback
GradingStepBegin(es, essay) ==
  updateEssay(
    updateEssay(es, essay.id,
      [status |-> PROCESSING, gradingStatus |-> "processing",
       progressStep |-> "grading", progressMessage |-> MsgGradingRunning]),
    essay.id,
    [progressStep |-> "grading",
     progressMessage |-> IF GradingSkipOcr THEN MsgGradingRetry
                         ELSE MsgGradingRunning,
     gradingStatus |-> "processing"])

\* runGradingStep: the essay it stores when the agent has resolved
GradingUpdated(essay, result) ==
  Merge(Merge(essay, result),
    [status |-> COMPLETED, gradingStatus |-> "done",
     ocrStatus |-> IF Truthy(result.ocrText) THEN Or(essay.ocrStatus, "done")
                   ELSE essay.ocrStatus,
     progressStep |-> "done", progressMessage |-> MsgGradingDone])

GradingStepEnd(es, essay, outcome) ==
  updateEssay(es, essay.id,
    GradingUpdated(essay, processEssayAgent(AgentArg(essay), outcome)))

----------------------------------------------------------------------------
(* Handler instances.  A run is one call of handleStartProcessing ("queue"), *)
(* handleBatchAi ("batch"), handleRetry ("retry") or handleStartAiForEssay   *)
(* ("startAi") that is suspended on a network call.  targets holds the       *)
(* essays as the handler captured them; st[i] is the position of target i:   *)
(* "todo", "ocr" (transcribeHandwriting in flight), "read" (the agent reads  *)
(* the image file), "grading" (provider request in flight) or "end".  ab[i]  *)
(* tells whether the controller of the step of target i has been aborted,    *)
(* oc[i] how the OCR step of target i ended in this run.  The controller a   *)
(* step creates is named <<run, target index>>.                              *)

NoRun == [kind |-> "none", mode |-> "auto", targets |-> <<>>,
          idx |-> 0, st |-> <<>>, ab |-> <<>>, oc |-> <<>>]

NewRun(kind, mode, targets) ==
  [kind |-> kind, mode |-> mode, targets |-> targets, idx |-> 1,
   st |-> [i \in 1..Len(targets) |-> "todo"],
   ab |-> [i \in 1..Len(targets) |-> FALSE],
   oc |-> [i \in 1..Len(targets) |-> "none"]]

InFlight(ph) == ph \in {"ocr", "read", "grading"}

\* a queue run whose continuation is ready to take its next target
Urgent(r) ==
  /\ runs[r].kind = "queue"
  /\ runs[r].idx <= Len(runs[r].targets)
  /\ runs[r].st[runs[r].idx] = "todo"

\* a network call or backoff wait whose signal is aborted has rejected
Rejected(r, i) == runs[r].st[i] \in {"ocr", "grading"} /\ runs[r].ab[i]

Quiescent ==
  \A r \in RunIds :
    ~Urgent(r) /\ \A i \in 1..Len(runs[r].targets) : ~Rejected(r, i)

FreeRuns == {r \in RunIds : runs[r].kind = "none"}

FreeRun == CHOOSE r \in FreeRuns : \A q \in FreeRuns : r <= q

\* the batch id of the next run: runs are told apart only where a
\* specification follows batchId
NextBatch == IF "batchId" \in tracked THEN nextBatch + 1 ELSE nextBatch

\* the exploration is bounded by the work done so far: every upload and
\* every started handler counts
Work == starts + UploadCost * (nextId - 1)

CanAfford(c) == Work + c <= MaxWork

Call(c, id) == [call |-> c, id |-> id]

End(k, id, outcome) == [kind |-> k, id |-> id, outcome |-> outcome]

\* runGradingStep from its start to the first real suspension: the result is
\* the essay list, the registry, the position reached and the calls issued.
\* A missing key and a missing source fail without a suspension.
StartGrading(es, reg, essay, ctrl, k) ==
  LET arg == AgentArg(essay)
      es1 == GradingStepBegin(es, essay)
      reg1 == registerController(reg, essay.id, ctrl)
      ocrCall == IF AgentRunsOcr(arg, GradingSkipOcr)
                 THEN {Call("ocr_upload", essay.id)} ELSE {}
      fail(msg) == [es |-> GradingStepEnd(es1, essay, msg),
                    reg |-> cleanupController(reg1, essay.id),
                    phase |-> "end", issued |-> ocrCall,
                    ended |-> {End("grading", essay.id, msg)}]
  IN  IF BaseText(arg) /= ""
      THEN IF k
           THEN [es |-> es1, reg |-> reg1, phase |-> "grading",
                 issued |-> ocrCall \cup {Call("grading", essay.id)},
                 ended |-> {}]
           ELSE fail(MsgKeyMissing)
      ELSE IF essay.file
           THEN [es |-> es1, reg |-> reg1, phase |-> "read",
                 issued |-> ocrCall, ended |-> {}]
           ELSE fail(MsgNoFile)

\* the run after target i has ended: a queue run moves to the next target
Advance(run, i) ==
  LET r1 == [run EXCEPT !.st[i] = "end"]
  IN  IF run.kind = "queue" THEN [r1 EXCEPT !.idx = i + 1] ELSE r1

\* the handler returns when no target is left
Finished(run) ==
  IF run.kind = "queue" THEN run.idx > Len(run.targets)
  ELSE \A i \in 1..Len(run.targets) : run.st[i] = "end"

\* store the run r has become; a finished handler runs its finally block
Settle(r, run) ==
  IF Finished(run)
  THEN /\ runs' = [runs EXCEPT ![r] = NoRun]
       /\ isProcessing' = FALSE
  ELSE /\ runs' = [runs EXCEPT ![r] = run]
       /\ UNCHANGED isProcessing

----------------------------------------------------------------------------
(* Card and sidebar controls (EssayCard, Sidebar) *)

queuedOnly(e) ==
  e.status = PENDING /\ e.ocrStatus = "idle" /\ e.gradingStatus = "idle"

CanCancel(e) == ~queuedOnly(e) /\ e.status = PROCESSING

CanRetry(e) == ~queuedOnly(e) /\ e.status /= PROCESSING

CanStartAi(e) ==
  /\ ~queuedOnly(e)
  /\ e.status \notin {PROCESSING, CANCELLED, ERROR}
  /\ e.gradingStatus /= "done"
  /\ hasTextContent(e)

CanDelete(e) == e.status /= PROCESSING

CanEdit(e) == ~queuedOnly(e) /\ e.status \notin {PROCESSING, CANCELLED, ERROR}

needsOcr(e) == e.submissionType = "image" /\ e.ocrStatus /= "done"

needsAi(e) == e.gradingStatus /= "done"

\* a filter that takes every unfinished essay whatever the mode
TargetForModeIgnored(e, mode) ==
  e.status /= PROCESSING /\ (needsOcr(e) \/ needsAi(e))

TargetForMode(e, mode) ==
  /\ e.status /= PROCESSING
  /\ IF mode = "ocr_only" THEN needsOcr(e)
     ELSE IF mode = "ai_only" THEN needsAi(e) /\ hasTextContent(e)
     ELSE needsOcr(e) \/ needsAi(e)

RECURSIVE pickTargetsForMode(_, _)
pickTargetsForMode(es, mode) ==
  IF es = <<>> THEN <<>>
  ELSE IF TargetForMode(Head(es), mode)
       THEN <<Head(es)>> \o pickTargetsForMode(Tail(es), mode)
       ELSE pickTargetsForMode(Tail(es), mode)

\* the filter without its text condition
AiTargetWithoutText(e) ==
  e.gradingStatus /= "done" /\ e.status /= PROCESSING

AiTarget(e) ==
  e.gradingStatus /= "done" /\ e.status /= PROCESSING /\ hasTextContent(e)

RECURSIVE aiTargets(_)
aiTargets(es) ==
  IF es = <<>> THEN <<>>
  ELSE IF AiTarget(Head(es)) THEN <<Head(es)>> \o aiTargets(Tail(es))
       ELSE aiTargets(Tail(es))

\* setEssays(prev => prev.map(e => idSet.has(e.id) ? { ...e, batchId } : e))
markBatchTargets(es, ids, batchId) ==
  [i \in 1..Len(es) |->
     IF es[i].id \in ids THEN Merge(es[i], [batchId |-> batchId]) ELSE es[i]]

----------------------------------------------------------------------------
(* Persistence (persistence.ts) *)

NoStorage == [present |-> FALSE, essays |-> <<>>]

\* a serialisation that leaves out the grading result as well
stripFileAndResult(es) ==
  [i \in 1..Len(es) |-> [es[i] EXCEPT !.file = FALSE, !.gradingResult = Undef]]

\* the stored essay has no file handle
stripTransientFields(es) == [i \in 1..Len(es) |-> [es[i] EXCEPT !.file = FALSE]]

MsgResume == "can restart after refresh"
MsgReupload == "source image unavailable, upload again"

resetIfInterrupted(e) ==
  IF e.status /= PROCESSING THEN e
  ELSE Merge(e,
    [status |-> PENDING,
     ocrStatus |-> IF e.ocrStatus = "processing" THEN "idle" ELSE e.ocrStatus,
     gradingStatus |-> IF e.gradingStatus = "processing" THEN "idle"
                       ELSE e.gradingStatus,
     progressStep |-> "queued",
     progressMessage |-> MsgResume])

\* a marking that takes every image essay, with text or without
markEveryImage(e) ==
  IF e.submissionType /= "image" THEN e
  ELSE Merge(e,
    [status |-> ERROR, ocrStatus |-> "error", gradingStatus |-> "skipped",
     progressStep |-> "error", progressMessage |-> MsgReupload,
     errorMessage |-> Or(Get(e, "errorMessage"), MsgReupload)])

markMissingSource(e) ==
  LET lacksText == ~Truthy(e.ocrText) /\ ~Truthy(e.rawText)
  IN  IF e.submissionType /= "image" \/ ~lacksText THEN e
      ELSE Merge(e,
        [status |-> ERROR, ocrStatus |-> "error", gradingStatus |-> "skipped",
         progressStep |-> "error", progressMessage |-> MsgReupload,
         errorMessage |-> Or(Get(e, "errorMessage"), MsgReupload)])

reviveEssay(e) ==
  LET withDefaults ==
        Merge(e,
          [ocrText |-> Or(e.ocrText, ""),
           progressStep |-> Or(Get(e, "progressStep"), "queued"),
           progressMessage |-> Or(Get(e, "progressMessage"), MsgQueue),
           ocrStatus |-> Or(e.ocrStatus, "idle"),
           gradingStatus |-> Or(e.gradingStatus, "idle"),
           status |-> Or(e.status, PENDING)])
  IN  markMissingSource(resetIfInterrupted(withDefaults))

loadPersistedEssays(store) ==
  IF ~store.present THEN <<>>
  ELSE [i \in 1..Len(store.essays) |-> reviveEssay(store.essays[i])]

\* a save that writes the payload whatever the list holds
persistEssaysAlways(es) ==
  [present |-> TRUE, essays |-> stripTransientFields(es)]

persistEssays(es) ==
  IF Len(es) = 0 THEN NoStorage
  ELSE [present |-> TRUE, essays |-> stripTransientFields(es)]

\* window.setTimeout(() => persistEssays(essays), 600): the time left and
\* the list the callback has captured
DebounceMs == 600

Timeout(es) == [left |-> DebounceMs, essays |-> es]

\* an effect that does not clear the timeout it replaces
KeepTimeout(ts) == ts

\* window.clearTimeout(persistTimeoutRef.current): the timeout scheduled
\* last, if it is still pending
clearTimeout(ts) == IF ts = <<>> THEN ts ELSE SubSeq(ts, 1, Len(ts) - 1)

\* the persist effect, run after a render with a new essay list
SchedulePersist(ts, es) == Append(clearTimeout(ts), Timeout(es))

----------------------------------------------------------------------------
(* The OCR client (markdownImport.ts).  ocr is one call of                *)
(* transcribeHandwriting: its position, its locals, the requests it has   *)
(* issued, the statuses it has been given and how it ended.               *)

DefaultPollIntervalMs == 2000
DefaultMaxAttempts == 120
DefaultMaxWaitMs == 4 * 60 * 1000

\* caps a caller passes to end the polling early
ShortAttempts == 2
ShortWaitMs == 5000

OcrOptions ==
  {[pollIntervalMs |-> DefaultPollIntervalMs, maxAttempts |-> a, maxWaitMs |-> w] :
     a \in {ShortAttempts, DefaultMaxAttempts},
     w \in {ShortWaitMs, DefaultMaxWaitMs}}

DefaultOptions ==
  [pollIntervalMs |-> DefaultPollIntervalMs, maxAttempts |-> DefaultMaxAttempts,
   maxWaitMs |-> DefaultMaxWaitMs]

\* the response has no retry-after header
NoRetryAfter == -1

DocumentId == "doc-1"
FetchAborted == "AbortError"
MsgTimedOut == <<"OCR request timed out before completion", DocumentId>>

Min(a, b) == IF a < b THEN a ELSE b

Max(a, b) == IF a > b THEN a ELSE b

Page(n, t) == [page_number |-> n, transcript |-> t]

\* results arrays of the vendor; "ws" is a transcript of white space
PageLists ==
  {<<>>,
   <<Page(1, "Hello"), Page(2, "World")>>,
   <<Page(2, "World"), Page(1, "Hello")>>,
   <<Page(1, "Hello"), Page(2, "")>>,
   <<Page(1, "Hello"), Page(2, "ws")>>,
   <<Page(1, "ws")>>}

\* String.trim() of parts joined by blank lines: white space at either end goes
RECURSIVE TrimParts(_)
TrimParts(parts) ==
  IF parts = <<>> THEN parts
  ELSE IF Head(parts) = "ws" THEN TrimParts(Tail(parts))
  ELSE IF parts[Len(parts)] = "ws"
       THEN TrimParts(SubSeq(parts, 1, Len(parts) - 1))
       ELSE parts

\* results.map(page => page?.transcript || "").filter(Boolean).join("\n\n")
\* .trim(): the string is held as the sequence of the parts joined, "" as <<>>
collectTranscript(results) ==
  TrimParts(SelectSeq([i \in 1..Len(results) |-> Or(results[i].transcript, "")],
                      Truthy))

\* the vendor's responses to GET /documents/{id}
Reply(http, status, retryAfter, results, message) ==
  [http |-> http, status |-> status, retryAfter |-> retryAfter,
   results |-> results, message |-> message]

PollReplies ==
  {Reply(200, "processing", NoRetryAfter, <<>>, Undef),
   Reply(202, Undef, NoRetryAfter, <<>>, Undef),
   Reply(404, Undef, NoRetryAfter, <<>>, Undef),
   Reply(429, Undef, NoRetryAfter, <<>>, Undef),
   Reply(429, Undef, 5, <<>>, Undef),
   Reply(429, Undef, 60, <<>>, Undef),
   Reply(200, "failed", NoRetryAfter, <<>>, Undef),
   Reply(200, "failed", NoRetryAfter, <<>>, "unreadable scan")}
  \cup {Reply(200, "processed", NoRetryAfter, pages, Undef) : pages \in PageLists}

\* try { data = await response.json() } catch (err) { data = {} }: the body
\* of a response whose signal is aborted while it is read
BodyLost(reply) == Reply(reply.http, Undef, reply.retryAfter, <<>>, Undef)

\* fetchDocumentStatus, from the response to the DocumentResult
fetchDocumentStatus(reply) ==
  [status |-> Or(reply.status,
                 IF reply.http = 202 THEN "processing" ELSE Undef),
   results |-> reply.results,
   message |-> reply.message,
   retryAfterMs |-> IF reply.retryAfter = NoRetryAfter THEN NoRetryAfter
                    ELSE reply.retryAfter * 1000,
   httpStatus |-> reply.http]

\* the responses to POST /documents: an id, an error status, a body without id
UploadReplies == {"id", "not_ok", "no_id"}

\* the side channels of the transcript: the Blob download, its data-URI
\* fallback, the localStorage copy, the post to the save server
SideChannels == {"blob", "dataUri", "localStorage", "remote"}

\* the error of the fallback: encodeURIComponent or triggerDownload throws
FallbackError == "URI malformed"

\* downloadMarkdown in a browser, failing the channels that fail: the Blob
\* download is tried, the fallback runs in its catch block, unguarded; the
\* localStorage copy has its own try and catch
downloadMarkdown(failing) ==
  IF {"blob", "dataUri"} \subseteq failing THEN FallbackError ELSE "ok"

\* persistMarkdownRemote: an async function, its fetch inside try and catch;
\* the caller does not await the promise
persistMarkdownRemote(failing) == "ok"

\* persistTranscript: "ok" when it returns, else the error it throws
persistTranscript(failing) ==
  IF downloadMarkdown(failing) /= "ok" THEN downloadMarkdown(failing)
  ELSE persistMarkdownRemote(failing)

\* failing: the side channels that fail during this call
NewCall(options, aborted) ==
  [pc |-> "idle", options |-> options, aborted |-> aborted, attempt |-> 0,
   dynamicDelay |-> options.pollIntervalMs, elapsed |-> 0, waitMs |-> 0,
   uploads |-> 0, polls |-> 0, seen |-> <<>>, out |-> <<>>, failing |-> {}]

Returned(o, transcript) == [o EXCEPT !.pc = "returned", !.out = transcript]

Thrown(o, msg) == [o EXCEPT !.pc = "thrown", !.out = <<msg>>]

\* a processed result with one more status request before the text is taken
ConfirmProcessed(o, result) ==
  [o EXCEPT !.pc = "wait", !.waitMs = 0, !.attempt = @ + 1]

\* result.status === "processed" inside the loop
OnProcessed(o, result) ==
  LET transcript == collectTranscript(result.results)
  IN  IF transcript /= <<>>
      THEN IF persistTranscript(o.failing) = "ok" THEN Returned(o, transcript)
           ELSE Thrown(o, persistTranscript(o.failing))
      ELSE Thrown(o, "OCR finished but returned empty transcript")

\* a loop that backs off from a 429 without reading the retry-after header
BackoffIgnoresHeader(o, result) ==
  LET rateLimited == result.httpStatus = 429
      missing == result.httpStatus = 404
      waitMs == IF rateLimited THEN Min(o.dynamicDelay * 2, 30000)
                ELSE IF missing
                THEN Max(o.dynamicDelay, o.options.pollIntervalMs * 2)
                ELSE o.dynamicDelay
  IN  [o EXCEPT !.pc = "wait",
                !.waitMs = waitMs,
                !.dynamicDelay = Min(waitMs + o.options.pollIntervalMs,
                                     IF rateLimited THEN 45000 ELSE 20000),
                !.attempt = @ + 1]

\* a loop that waits the current delay after a 429 without the header
BackoffUndoubled(o, result) ==
  LET rateLimited == result.httpStatus = 429
      missing == result.httpStatus = 404
      waitMs == IF rateLimited /\ result.retryAfterMs /= NoRetryAfter
                THEN result.retryAfterMs
                ELSE IF missing
                THEN Max(o.dynamicDelay, o.options.pollIntervalMs * 2)
                ELSE o.dynamicDelay
  IN  [o EXCEPT !.pc = "wait",
                !.waitMs = waitMs,
                !.dynamicDelay = Min(waitMs + o.options.pollIntervalMs,
                                     IF rateLimited THEN 45000 ELSE 20000),
                !.attempt = @ + 1]

\* the rest of a loop iteration: the wait, the next delay, the attempt count
Backoff(o, result) ==
  LET rateLimited == result.httpStatus = 429
      missing == result.httpStatus = 404
      waitMs == IF rateLimited
                THEN IF result.retryAfterMs /= NoRetryAfter
                     THEN result.retryAfterMs
                     ELSE Min(o.dynamicDelay * 2, 30000)
                ELSE IF missing
                THEN Max(o.dynamicDelay, o.options.pollIntervalMs * 2)
                ELSE o.dynamicDelay
  IN  [o EXCEPT !.pc = "wait",
                !.waitMs = waitMs,
                !.dynamicDelay = Min(waitMs + o.options.pollIntervalMs,
                                     IF rateLimited THEN 45000 ELSE 20000),
                !.attempt = @ + 1]

\* the loop body after await fetchDocumentStatus
LoopBody(o, result) ==
  IF result.status = "processed" THEN OnProcessed(o, result)
  ELSE IF result.status = "failed"
  THEN Thrown(o, Or(result.message, "Handwriting OCR processing failed"))
  ELSE Backoff(o, result)

\* a loop whose condition never ends it
LoopHeadUncapped(o, key) ==
  IF ~key THEN Thrown(o, MsgOcrKeyMissing)
  ELSE IF o.aborted THEN Thrown(o, AbortError)
  ELSE [o EXCEPT !.pc = "poll", !.polls = @ + 1]

\* the while condition, then fetchDocumentStatus up to its fetch: inside the
\* loop, or the last request after it
LoopHead(o, key) ==
  LET inLoop == o.attempt < o.options.maxAttempts
                /\ o.elapsed < o.options.maxWaitMs
  IN  IF ~key THEN Thrown(o, MsgOcrKeyMissing)
      ELSE IF o.aborted THEN Thrown(o, AbortError)
      ELSE [o EXCEPT !.pc = IF inLoop THEN "poll" ELSE "final",
                     !.polls = @ + 1]

\* after the loop: a processed result with text is returned, anything else
\* is the timeout
AfterLoop(o, result) ==
  LET transcript == collectTranscript(result.results)
  IN  IF result.status = "processed" /\ transcript /= <<>>
      THEN IF persistTranscript(o.failing) = "ok" THEN Returned(o, transcript)
           ELSE Thrown(o, persistTranscript(o.failing))
      ELSE [o EXCEPT !.pc = "thrown", !.out = MsgTimedOut]

----------------------------------------------------------------------------
(* The vendor clients at their entry (aiAgent.ts, markdownImport.ts).    *)
(* client is one call of a function that holds a key: an adapter chosen   *)
(* by routeModel, uploadDocument or fetchDocumentStatus.                  *)

Providers == {"openai", "gemini", "deepseek", "openrouter"}

\* the keys of config.ts that are set
KeyNames == Providers \cup {"ocr"}

\* config.model.provider, one of the four or anything else, and the two
\* requests of the OCR client
ClientNames == Providers \cup {"other", "ocr_upload", "ocr_status"}

\* routeModel's switch, default branch included, and the OCR client's key
KeyOf(fn) ==
  IF fn \in {"ocr_upload", "ocr_status"} THEN "ocr"
  ELSE IF fn \in Providers THEN fn
  ELSE "openai"

\* providerName
ProviderName(fn) ==
  CASE KeyOf(fn) = "openai" -> "OpenAI"
    [] KeyOf(fn) = "gemini" -> "Gemini"
    [] KeyOf(fn) = "deepseek" -> "DeepSeek"
    [] KeyOf(fn) = "openrouter" -> "OpenRouter"
    [] KeyOf(fn) = "ocr" -> "Handwriting OCR"

\* `${providerName} API key is missing`
MissingKeyError(fn) == <<ProviderName(fn), MsgKeyMissing>>

NewClientCall(fn, keys) ==
  [fn |-> fn, keys |-> keys, aborted |-> FALSE, pc |-> "idle",
   fetches |-> 0, out |-> <<>>]

ClientCalls == {NewClientCall(fn, keys) : fn \in ClientNames, keys \in SUBSET KeyNames}

\* an entry that sends the request whatever the key is
ClientEntryUnchecked(c) ==
  IF c.aborted THEN [c EXCEPT !.pc = "thrown", !.out = <<AbortError>>]
  ELSE [c EXCEPT !.pc = "fetch", !.fetches = @ + 1]

\* if (!apiKey) throw ...; if (signal?.aborted) throw ...; await fetch(...)
ClientEntry(c) ==
  IF KeyOf(c.fn) \notin c.keys
  THEN [c EXCEPT !.pc = "thrown", !.out = MissingKeyError(c.fn)]
  ELSE IF c.aborted THEN [c EXCEPT !.pc = "thrown", !.out = <<AbortError>>]
  ELSE [c EXCEPT !.pc = "fetch", !.fetches = @ + 1]

----------------------------------------------------------------------------
(* Initial state: a first visit, nothing stored.  env tells whether the     *)
(* key of the OCR vendor and the key of the selected provider are          *)
(* configured.  progressStep, progressMessage, errorMessage and batchId    *)
(* are written by the handlers and read by none of them: a specification   *)
(* follows the ones its properties read.                                   *)

CoreFields == {"id", "submissionType", "file", "rawText", "ocrText", "status",
               "ocrStatus", "gradingStatus", "gradingResult"}

\* the essays a call of processEssayAgent is given: the three kinds as they
\* are created, an image that has been transcribed, an image whose file is
\* gone, texts that were edited, in any status
AgentEssays ==
  {[e EXCEPT !.ocrText = t, !.file = f, !.status = st] :
     e \in {ImageEssay(1), TextEssay(1), MarkdownEssay(1)},
     t \in {"", OcrTranscript, "ws"},
     f \in BOOLEAN,
     st \in {PENDING, PROCESSING, COMPLETED, ERROR}}

AgentCalls ==
  {NewAgentCall(e, skipOcr, FALSE) : e \in AgentEssays, skipOcr \in BOOLEAN}

InitWith(fields) ==
  /\ tracked = fields
  /\ essays = <<>>
  /\ nextId = 1
  /\ abortControllers = [id \in EssayIds |-> NoCtrl]
  /\ isProcessing = FALSE
  /\ workflowMode = "auto"
  /\ env \in [ocrKey : BOOLEAN, keyed : BOOLEAN]
  /\ runs = [r \in RunIds |-> NoRun]
  /\ nextBatch = 1
  /\ starts = 0
  /\ issued = {}
  /\ ended = {}
  /\ storage = NoStorage
  /\ timeouts = <<Timeout(<<>>)>>
  /\ ocr \in {[NewCall(o, FALSE) EXCEPT !.failing = f] :
               o \in IF "ocr" \in fields THEN OcrOptions ELSE {DefaultOptions},
               f \in IF "side" \in fields THEN SUBSET SideChannels ELSE {{}}}
  /\ client \in IF "client" \in fields THEN ClientCalls
                ELSE {NewClientCall("openai", KeyNames)}
  /\ agent \in IF "agent" \in fields THEN AgentCalls
               ELSE {NewAgentCall(TextEssay(1), TRUE, FALSE)}

Quiet == issued' = {} /\ ended' = {}

----------------------------------------------------------------------------
(* Uploads and settings *)

\* the fields of the essay record a specification follows
Project(e) == [f \in tracked |-> e[f]]

Add(e) ==
  /\ Quiescent
  /\ ~isProcessing
  /\ nextId <= MaxEssays
  /\ CanAfford(UploadCost)
  /\ essays' = essays \o <<Project(e)>>
  /\ nextId' = nextId + 1
  /\ Quiet
  /\ UNCHANGED <<abortControllers, isProcessing, workflowMode, env, tracked,
                 runs, nextBatch, starts>>

handleUploadFiles == Add(ImageEssay(nextId))

handleUploadMarkdown == Add(MarkdownEssay(nextId))

handleTextSubmission == Add(TextEssay(nextId))

setWorkflowMode ==
  /\ Quiescent
  /\ ~isProcessing
  /\ \E m \in WorkflowModes \ {workflowMode} : workflowMode' = m
  /\ Quiet
  /\ UNCHANGED <<essays, nextId, abortControllers, isProcessing, env, tracked,
                 runs, nextBatch, starts>>

----------------------------------------------------------------------------
(* handleStartProcessing *)

NoTextError ==
  [status |-> ERROR, gradingStatus |-> "error", progressStep |-> "error",
   progressMessage |-> MsgNoText, errorMessage |-> MsgNoText]

\* a loop that calls runGradingStep without awaiting it: the iteration is
\* over as soon as the step has started
QueueGradeUnawaited(es, reg, run, i, cur, r) ==
  LET shouldGrade == run.mode /= "ocr_only" /\ needsAi(cur)
      g == StartGrading(es, reg, cur, <<r, i>>, env.keyed)
  IN  IF ~shouldGrade
      THEN [es |-> es, reg |-> reg, run |-> Advance(run, i),
            issued |-> {}, ended |-> {}, set |-> FALSE]
      ELSE IF ~hasTextContent(cur)
      THEN [es |-> updateEssay(es, cur.id, NoTextError), reg |-> reg,
            run |-> Advance(run, i), issued |-> {}, ended |-> {},
            set |-> TRUE]
      ELSE [es |-> g.es, reg |-> g.reg,
            run |-> IF g.phase = "end" THEN Advance(run, i)
                    ELSE [run EXCEPT !.st[i] = g.phase, !.ab[i] = FALSE,
                                     !.idx = i + 1],
            issued |-> g.issued, ended |-> g.ended, set |-> TRUE]

\* the grading part of one loop iteration for target i, whose essay is cur
QueueGrade(es, reg, run, i, cur, r) ==
  LET shouldGrade == run.mode /= "ocr_only" /\ needsAi(cur)
      g == StartGrading(es, reg, cur, <<r, i>>, env.keyed)
  IN  IF ~shouldGrade
      THEN [es |-> es, reg |-> reg, run |-> Advance(run, i),
            issued |-> {}, ended |-> {}, set |-> FALSE]
      ELSE IF ~hasTextContent(cur)
      THEN [es |-> updateEssay(es, cur.id, NoTextError), reg |-> reg,
            run |-> Advance(run, i), issued |-> {}, ended |-> {},
            set |-> TRUE]
      ELSE [es |-> g.es, reg |-> g.reg,
            run |-> IF g.phase = "end" THEN Advance(run, i)
                    ELSE [run EXCEPT !.st[i] = g.phase, !.ab[i] = FALSE],
            issued |-> g.issued, ended |-> g.ended, set |-> TRUE]

\* a loop without the inner catch: the error leaves the loop and the handler
Uncaught(run, i) ==
  [run EXCEPT !.idx = Len(run.targets) + 1,
              !.st = [j \in 1..Len(run.targets) |-> "end"]]

\* catch (err) { console.error('Processing failed', err) }: the loop goes on
\* with the next target
CatchPerEssay(run, i) == Advance(run, i)

\* a runOcrStep that stores the failure and returns the essay instead of
\* throwing: the iteration goes on to its grading part
OcrFailureSwallowed(es, reg, run, i, msg, r) ==
  QueueGrade(OcrStepFail(es, run.targets[i], msg),
             cleanupController(reg, run.targets[i].id),
             [run EXCEPT !.oc[i] = IF IsCancelled(msg) THEN "cancelled"
                                   ELSE "failed"],
             i, run.targets[i], r)

\* runOcrStep rejects with msg: its catch block stores the failure, its finally
\* block removes the controller, and the error lands in the loop's catch, so
\* the grading part of the iteration is skipped
OcrFailureResult(es, reg, run, i, msg, r) ==
  [es |-> OcrStepFail(es, run.targets[i], msg),
   reg |-> cleanupController(reg, run.targets[i].id),
   run |-> CatchPerEssay(
             [run EXCEPT !.oc[i] = IF IsCancelled(msg) THEN "cancelled"
                                   ELSE "failed"], i),
   issued |-> {}, ended |-> {}, set |-> TRUE]

\* one loop iteration up to its first suspension
QueueIteration(es, reg, run, r) ==
  LET i == run.idx
      cur == run.targets[i]
      id == cur.id
  IN  IF run.mode /= "ai_only" /\ needsOcr(cur)
      THEN IF cur.submissionType /= "image" \/ ~cur.file
           THEN QueueGrade(es, reg, [run EXCEPT !.oc[i] = "nofile"], i, cur, r)
           ELSE IF env.ocrKey
           THEN [es |-> OcrStepBegin(es, cur),
                 reg |-> registerController(reg, id, <<r, i>>),
                 run |-> [run EXCEPT !.st[i] = "ocr", !.ab[i] = FALSE],
                 issued |-> {Call("ocr_upload", id)}, ended |-> {},
                 set |-> TRUE]
           ELSE [OcrFailureResult(OcrStepBegin(es, cur),
                                  registerController(reg, id, <<r, i>>),
                                  run, i, MsgOcrKeyMissing, r)
                   EXCEPT !.ended = @ \cup {End("ocr", id, MsgOcrKeyMissing)}]
      ELSE QueueGrade(es, reg, run, i, cur, r)

Apply(r, res) ==
  /\ essays' = res.es
  /\ abortControllers' = res.reg
  /\ issued' = res.issued
  /\ ended' = res.ended
  /\ Settle(r, res.run)

handleStartProcessing ==
  LET targets == pickTargetsForMode(essays, workflowMode)
  IN  /\ Quiescent
      /\ ~isProcessing
      /\ Len(targets) > 0
      /\ CanAfford(1)
      /\ FreeRuns /= {}
      /\ essays' = markBatchTargets(essays, IdsOf(targets), nextBatch)
      /\ nextBatch' = NextBatch
      /\ starts' = starts + 1
      /\ isProcessing' = TRUE
      /\ runs' = [runs EXCEPT ![FreeRun] =
                    NewRun("queue", workflowMode, targets)]
      /\ Quiet
      /\ UNCHANGED <<nextId, abortControllers, workflowMode, env, tracked>>

\* the loop of handleStartProcessing takes its next target
QueueNext(r) ==
  /\ Urgent(r)
  /\ Apply(r, QueueIteration(essays, abortControllers, runs[r], r))
  /\ UNCHANGED <<nextId, workflowMode, env, tracked, nextBatch, starts>>

\* transcribeHandwriting settles: runOcrStep ends and the loop goes on
OcrEnd(r) ==
  LET run == runs[r]
      i == run.idx
      cur == run.targets[i]
  IN  /\ run.kind = "queue"
      /\ i <= Len(run.targets)
      /\ run.st[i] = "ocr"
      /\ Rejected(r, i) \/ Quiescent
      /\ \E out \in (IF run.ab[i] THEN {AbortError}
                     ELSE {"ok"} \cup OcrFailures) :
           IF out = "ok"
           THEN LET updated == OcrUpdated(cur, OcrTranscript, run.mode = "auto")
                    res == QueueGrade(
                             updateEssay(essays, cur.id, updated),
                             cleanupController(abortControllers, cur.id),
                             [run EXCEPT !.targets[i] = updated, !.oc[i] = "done"],
                             i, updated, r)
                IN  Apply(r, [res EXCEPT
                                !.ended = @ \cup {End("ocr", cur.id, "ok")},
                                !.set = TRUE])
           ELSE Apply(r,
                  [OcrFailureResult(essays, abortControllers, run, i, out, r)
                     EXCEPT !.ended = @ \cup {End("ocr", cur.id, out)}])
      /\ UNCHANGED <<nextId, workflowMode, env, tracked, nextBatch, starts>>

----------------------------------------------------------------------------
(* The end of a grading step, for every handler *)

GradingFinish(r, i, out) ==
  LET run == runs[r]
      cur == run.targets[i]
  IN  Apply(r,
        [es |-> GradingStepEnd(essays, cur, out),
         reg |-> cleanupController(abortControllers, cur.id),
         run |-> Advance(run, i),
         issued |-> {}, ended |-> {End("grading", cur.id, out)},
         set |-> TRUE])

\* fileToBase64 resolves: routeModel checks the signal and the key
FileRead(r, i) ==
  LET run == runs[r]
      cur == run.targets[i]
  IN  /\ Quiescent
      /\ i \in 1..Len(run.targets)
      /\ run.st[i] = "read"
      /\ IF run.ab[i] THEN GradingFinish(r, i, AbortError)
         ELSE IF ~env.keyed THEN GradingFinish(r, i, MsgKeyMissing)
         ELSE /\ runs' = [runs EXCEPT ![r].st[i] = "grading"]
              /\ issued' = {Call("grading", cur.id)}
              /\ ended' = {}
              /\ UNCHANGED <<essays, abortControllers, isProcessing>>
      /\ UNCHANGED <<nextId, workflowMode, env, tracked, nextBatch, starts>>

\* the provider request settles
GradingEnd(r, i) ==
  LET run == runs[r]
  IN  /\ i \in 1..Len(run.targets)
      /\ run.st[i] = "grading"
      /\ Rejected(r, i) \/ Quiescent
      /\ \E out \in (IF run.ab[i] THEN {AbortError}
                     ELSE GradingReplies \cup GradingFailures) :
           GradingFinish(r, i, out)
      /\ UNCHANGED <<nextId, workflowMode, env, tracked, nextBatch, starts>>

----------------------------------------------------------------------------
(* handleRetry, handleStartAiForEssay, handleBatchAi *)

\* setIsProcessing(true), runGradingStep(target), and, when the step ended
\* without a suspension, the finally block
Single(kind, target) ==
  LET r == FreeRun
      g == StartGrading(essays, abortControllers, target, <<r, 1>>, env.keyed)
      run == NewRun(kind, workflowMode, <<target>>)
  IN  /\ FreeRuns /= {}
      /\ CanAfford(1)
      /\ starts' = starts + 1
      /\ essays' = g.es
      /\ abortControllers' = g.reg
      /\ issued' = g.issued
      /\ ended' = g.ended
      /\ IF g.phase = "end"
         THEN isProcessing' = FALSE /\ UNCHANGED runs
         ELSE /\ isProcessing' = TRUE
              /\ runs' = [runs EXCEPT ![r] = [run EXCEPT !.st[1] = g.phase]]
      /\ UNCHANGED <<nextId, workflowMode, env, tracked, nextBatch>>

handleRetry(id) ==
  /\ Quiescent
  /\ id \in IdsOf(essays)
  /\ CanRetry(EssayOf(essays, id))
  /\ Single("retry", EssayOf(essays, id))

handleStartAiForEssay(id) ==
  /\ Quiescent
  /\ id \in IdsOf(essays)
  /\ CanStartAi(EssayOf(essays, id))
  /\ IF ~hasTextContent(EssayOf(essays, id))
     THEN /\ essays' = updateEssay(essays, id, NoTextError)
          /\ Quiet
          /\ UNCHANGED <<nextId, abortControllers, isProcessing, workflowMode,
                         env, tracked, runs, nextBatch, starts>>
     ELSE Single("startAi", EssayOf(essays, id))

\* aiTargets.map(async essay => runGradingStep(essay)): every target's step
\* starts before the handler suspends on Promise.all
RECURSIVE BatchStart(_, _, _, _, _, _)
BatchStart(es, reg, targets, i, r, k) ==
  IF i > Len(targets)
  THEN [es |-> es, reg |-> reg, st |-> <<>>, issued |-> {}, ended |-> {}]
  ELSE LET g == StartGrading(es, reg, targets[i], <<r, i>>, k)
           rest == BatchStart(g.es, g.reg, targets, i + 1, r, k)
       IN  [es |-> rest.es, reg |-> rest.reg,
            st |-> <<g.phase>> \o rest.st,
            issued |-> g.issued \cup rest.issued,
            ended |-> g.ended \cup rest.ended]

handleBatchAi ==
  LET targets == aiTargets(essays)
      r == FreeRun
      b == BatchStart(markBatchTargets(essays, IdsOf(targets), nextBatch),
                      abortControllers, targets, 1, r, env.keyed)
      run == [NewRun("batch", workflowMode, targets) EXCEPT !.st = b.st]
  IN  /\ Quiescent
      /\ ~isProcessing
      /\ Len(targets) > 0
      /\ CanAfford(1)
      /\ FreeRuns /= {}
      /\ nextBatch' = NextBatch
      /\ starts' = starts + 1
      /\ essays' = b.es
      /\ abortControllers' = b.reg
      /\ issued' = b.issued
      /\ ended' = b.ended
      /\ IF Finished(run)
         THEN isProcessing' = FALSE /\ UNCHANGED runs
         ELSE isProcessing' = TRUE /\ runs' = [runs EXCEPT ![r] = run]
      /\ UNCHANGED <<nextId, workflowMode, env, tracked>>

----------------------------------------------------------------------------
(* handleCancel, handleDelete, handleClearAll, handleUpdate *)

CancelPayload ==
  [status |-> CANCELLED, ocrStatus |-> "skipped", gradingStatus |-> "skipped",
   progressStep |-> "cancelled", progressMessage |-> MsgCancelDone,
   errorMessage |-> MsgUserCancelled]

\* controller?.abort()
Abort(rs, ctrl) ==
  IF ctrl = NoCtrl THEN rs
  ELSE [rs EXCEPT ![ctrl[1]].ab[ctrl[2]] = TRUE]

handleCancel(id) ==
  /\ Quiescent
  /\ id \in IdsOf(essays)
  /\ CanCancel(EssayOf(essays, id))
  /\ runs' = Abort(runs, abortControllers[id])
  /\ essays' = updateEssay(essays, id, CancelPayload)
  /\ Quiet
  /\ UNCHANGED <<nextId, abortControllers, isProcessing, workflowMode, env, tracked, nextBatch, starts>>

handleDelete(id) ==
  /\ Quiescent
  /\ id \in IdsOf(essays)
  /\ CanDelete(EssayOf(essays, id))
  /\ essays' = Filter(essays, IdsOf(essays) \ {id})
  /\ Quiet
  /\ UNCHANGED <<nextId, abortControllers, isProcessing, workflowMode, env, tracked, runs, nextBatch, starts>>

handleClearAll ==
  /\ Quiescent
  /\ ~isProcessing
  /\ Len(essays) > 0
  /\ essays' = <<>>
  /\ storage' = persistEssays(<<>>)
  /\ Quiet
  /\ UNCHANGED <<nextId, abortControllers, isProcessing, workflowMode, env, tracked, runs, nextBatch, starts>>

\* the card's edit of the transcription
handleUpdate(id) ==
  /\ Quiescent
  /\ id \in IdsOf(essays)
  /\ CanEdit(EssayOf(essays, id))
  /\ CanAfford(1)
  /\ starts' = starts + 1
  /\ \E t \in EditTexts \ {EssayOf(essays, id).ocrText} :
       essays' = updateEssay(essays, id, [ocrText |-> t])
  /\ Quiet
  /\ UNCHANGED <<nextId, abortControllers, isProcessing, workflowMode, env,
                 tracked, runs, nextBatch>>

----------------------------------------------------------------------------
(* The page is loaded again after the pending save has run *)

\* handlers, controllers and component state are gone; the essays are what
\* loadPersistedEssays returns for what persistEssays stored
reload ==
  /\ Quiescent
  /\ essays' = loadPersistedEssays(persistEssays(essays))
  /\ abortControllers' = [id \in EssayIds |-> NoCtrl]
  /\ isProcessing' = FALSE
  /\ runs' = [r \in RunIds |-> NoRun]
  /\ Quiet
  /\ UNCHANGED <<nextId, workflowMode, env, tracked, nextBatch, starts>>

----------------------------------------------------------------------------

(* The store.  Spec leaves it aside: no timeout fires, and reload takes  *)
(* the pending save as done.  SpecStore follows the persist effect, the  *)
(* timeouts and the stored entry through one start-queue run at a time.  *)

TimerIdle == UNCHANGED <<timeouts, ocr, client, agent>>

StoreIdle == UNCHANGED <<storage, timeouts, ocr, client, agent>>

\* useEffect(..., [essays]): a new list restarts the timeout
PersistEffect ==
  timeouts' = IF essays' /= essays THEN SchedulePersist(timeouts, essays')
              ELSE timeouts

Persisted == UNCHANGED <<storage, ocr, client, agent>> /\ PersistEffect

TickMs == DebounceMs \div 2

\* time passes, up to the moment the next timeout is due
Tick ==
  /\ Quiescent
  /\ timeouts /= <<>>
  /\ \A i \in 1..Len(timeouts) : timeouts[i].left > 0
  /\ timeouts' = [i \in 1..Len(timeouts) |->
                    [timeouts[i] EXCEPT !.left = @ - TickMs]]
  /\ Quiet
  /\ UNCHANGED <<essays, nextId, abortControllers, isProcessing, workflowMode,
                 env, tracked, runs, nextBatch, starts, storage, ocr,
                 client, agent>>

\* a timeout is due: its callback saves the list it has captured
PersistFires ==
  /\ Quiescent
  /\ \E i \in 1..Len(timeouts) :
       /\ timeouts[i].left = 0
       /\ storage' = persistEssays(timeouts[i].essays)
       /\ timeouts' = SubSeq(timeouts, 1, i - 1)
                         \o SubSeq(timeouts, i + 1, Len(timeouts))
  /\ Quiet
  /\ UNCHANGED <<essays, nextId, abortControllers, isProcessing, workflowMode,
                 env, tracked, runs, nextBatch, starts, ocr, client, agent>>

\* the page is loaded again at any moment: handlers, controllers, timeouts
\* and component state are gone, the mount effects load the stored entry and
\* schedule the save of what they loaded
reloadPage ==
  /\ Quiescent
  /\ essays' = loadPersistedEssays(storage)
  /\ timeouts' = <<Timeout(essays')>>
  /\ abortControllers' = [id \in EssayIds |-> NoCtrl]
  /\ isProcessing' = FALSE
  /\ runs' = [r \in RunIds |-> NoRun]
  /\ Quiet
  /\ UNCHANGED <<nextId, workflowMode, env, tracked, nextBatch, starts,
                 storage, ocr, client, agent>>

Next ==
  \/ handleUploadFiles /\ StoreIdle
  \/ handleUploadMarkdown /\ StoreIdle
  \/ handleTextSubmission /\ StoreIdle
  \/ setWorkflowMode /\ StoreIdle
  \/ handleStartProcessing /\ StoreIdle
  \/ \E r \in RunIds : QueueNext(r) /\ StoreIdle
  \/ \E r \in RunIds : OcrEnd(r) /\ StoreIdle
  \/ \E r \in RunIds : \E i \in 1..MaxEssays : FileRead(r, i) /\ StoreIdle
  \/ \E r \in RunIds : \E i \in 1..MaxEssays : GradingEnd(r, i) /\ StoreIdle
  \/ \E id \in EssayIds : handleRetry(id) /\ StoreIdle
  \/ \E id \in EssayIds : handleStartAiForEssay(id) /\ StoreIdle
  \/ handleBatchAi /\ StoreIdle
  \/ \E id \in EssayIds : handleCancel(id) /\ StoreIdle
  \/ \E id \in EssayIds : handleDelete(id) /\ StoreIdle
  \/ handleClearAll /\ TimerIdle
  \/ \E id \in EssayIds : handleUpdate(id) /\ StoreIdle
  \/ reload /\ StoreIdle

StoreNext ==
  \/ handleUploadFiles /\ Persisted
  \/ handleTextSubmission /\ Persisted
  \/ handleStartProcessing /\ Persisted
  \/ \E r \in RunIds : QueueNext(r) /\ Persisted
  \/ \E r \in RunIds : OcrEnd(r) /\ Persisted
  \/ \E r \in RunIds : \E i \in 1..MaxEssays : GradingEnd(r, i) /\ Persisted
  \/ \E id \in EssayIds : handleCancel(id) /\ Persisted
  \/ \E id \in EssayIds : handleDelete(id) /\ Persisted
  \/ handleClearAll /\ PersistEffect /\ UNCHANGED <<ocr, client, agent>>
  \/ \E id \in EssayIds : handleUpdate(id) /\ Persisted
  \/ Tick
  \/ PersistFires
  \/ reloadPage

\* the fields the handlers read, and the step and error message a card shows
StatusFields == CoreFields \cup {"progressStep", "errorMessage"}

Init == InitWith(StatusFields)

Spec == Init /\ [][Next]_vars

\* the fields the load and the handlers read, and the messages a card shows
StoreFields == CoreFields \cup {"progressMessage", "errorMessage"}

\* both keys configured; the mode stays automatic
InitStore ==
  /\ InitWith(StoreFields)
  /\ env = [ocrKey |-> TRUE, keyed |-> TRUE]

SpecStore == InitStore /\ [][StoreNext]_vars

----------------------------------------------------------------------------
(* One call of transcribeHandwriting, with every response of the vendor *)

AppIdle ==
  UNCHANGED <<essays, nextId, abortControllers, isProcessing, workflowMode,
              env, tracked, runs, nextBatch, starts, issued, ended, storage,
              timeouts, client, agent>>

\* the call up to the upload's fetch
transcribeHandwriting ==
  /\ ocr.pc = "idle"
  /\ ocr' = IF ocr.aborted THEN Thrown(ocr, AbortError)
            ELSE IF ~env.ocrKey THEN Thrown(ocr, MsgOcrKeyMissing)
            ELSE [ocr EXCEPT !.pc = "upload", !.uploads = @ + 1]
  /\ AppIdle

\* the upload's fetch settles; with an id the loop starts
uploadDocument ==
  /\ ocr.pc = "upload"
  /\ ocr.polls < MaxPolls
  /\ \E reply \in UploadReplies :
       ocr' = IF ocr.aborted THEN Thrown(ocr, FetchAborted)
              ELSE IF reply = "not_ok" THEN Thrown(ocr, "OCR upload failed")
              ELSE IF reply = "no_id" THEN Thrown(ocr, "OCR upload did not return an id")
              ELSE LoopHead(ocr, env.ocrKey)
  /\ AppIdle

\* a status request of the loop settles.  An abort rejects the fetch, or,
\* when the response has arrived, the reading of its body, which
\* fetchDocumentStatus catches.
PollReturns ==
  /\ ocr.pc = "poll"
  /\ \E reply \in PollReplies : \E lost \in {FALSE, ocr.aborted} :
       LET result == fetchDocumentStatus(IF lost THEN BodyLost(reply) ELSE reply)
           o == [ocr EXCEPT !.seen = Append(@, result)]
       IN  ocr' = IF ocr.aborted /\ ~lost THEN Thrown(ocr, FetchAborted)
                  ELSE LoopBody(o, result)
  /\ AppIdle

\* await delay(waitMs, signal) ends, by its timer or by the abort listener;
\* after a delay started with the signal aborted, fetchDocumentStatus throws
DelayEnds ==
  /\ ocr.pc = "wait"
  /\ ocr.polls < MaxPolls
  /\ ocr' = IF ocr.aborted THEN Thrown(ocr, AbortError)
            ELSE LoopHead([ocr EXCEPT !.elapsed = @ + ocr.waitMs], env.ocrKey)
  /\ AppIdle

\* the status request after the loop settles, as in the loop
FinalReturns ==
  /\ ocr.pc = "final"
  /\ \E reply \in PollReplies : \E lost \in {FALSE, ocr.aborted} :
       LET result == fetchDocumentStatus(IF lost THEN BodyLost(reply) ELSE reply)
           o == [ocr EXCEPT !.seen = Append(@, result)]
       IN  ocr' = IF ocr.aborted /\ ~lost THEN Thrown(ocr, FetchAborted)
                  ELSE AfterLoop(o, result)
  /\ AppIdle

\* controller.abort() by the caller, before the call or while it waits
abortSignal ==
  /\ ocr.pc \notin {"returned", "thrown"}
  /\ ~ocr.aborted
  /\ ocr' = [ocr EXCEPT !.aborted = TRUE]
  /\ AppIdle

OcrNext ==
  \/ transcribeHandwriting
  \/ uploadDocument
  \/ PollReturns
  \/ DelayEnds
  \/ FinalReturns
  \/ abortSignal

OcrFields == CoreFields \cup {"ocr"}

InitOcr == InitWith(OcrFields)

SpecOcr == InitOcr /\ [][OcrNext]_vars

\* calls with a short cap, which is met within MaxPolls status requests
InitOcrLive == InitOcr /\ ocr.options /= DefaultOptions

\* the call is made, every fetch settles and every timer of delay fires
OcrFairness ==
  /\ WF_vars(transcribeHandwriting)
  /\ WF_vars(uploadDocument)
  /\ WF_vars(PollReturns)
  /\ WF_vars(DelayEnds)
  /\ WF_vars(FinalReturns)

SpecOcrLive == InitOcrLive /\ [][OcrNext]_vars /\ OcrFairness

\* calls during which any of the transcript's side channels may fail
SideFields == OcrFields \cup {"side"}

InitOcrSide == InitWith(SideFields)

SpecOcrSide == InitOcrSide /\ [][OcrNext]_vars

----------------------------------------------------------------------------
(* One call of a vendor client, with any keys set *)

ClientIdle ==
  UNCHANGED <<essays, nextId, abortControllers, isProcessing, workflowMode,
              env, tracked, runs, nextBatch, starts, issued, ended, storage,
              timeouts, ocr, agent>>

\* the client is called, with the signal as it is
clientCall ==
  /\ client.pc = "idle"
  /\ client' = ClientEntry(client)
  /\ ClientIdle

\* the fetch settles: a response that is ok, one that is not, or the abort
clientFetchSettles ==
  /\ client.pc = "fetch"
  /\ \E ok \in BOOLEAN :
       client' = IF client.aborted
                 THEN [client EXCEPT !.pc = "thrown", !.out = <<FetchAborted>>]
                 ELSE IF ok THEN [client EXCEPT !.pc = "returned"]
                 ELSE [client EXCEPT !.pc = "thrown",
                                     !.out = <<ProviderName(client.fn),
                                               "request failed">>]
  /\ ClientIdle

\* controller.abort() by the caller, before the call or during the fetch
clientAbort ==
  /\ client.pc \in {"idle", "fetch"}
  /\ ~client.aborted
  /\ client' = [client EXCEPT !.aborted = TRUE]
  /\ ClientIdle

ClientNext ==
  \/ clientCall
  \/ clientFetchSettles
  \/ clientAbort

ClientFields == CoreFields \cup {"client"}

\* the two keys the handlers use are set
InitClient ==
  /\ InitWith(ClientFields)
  /\ env = [ocrKey |-> TRUE, keyed |-> TRUE]

SpecClient == InitClient /\ [][ClientNext]_vars

TypeOK ==
  /\ \A i \in 1..Len(essays) : essays[i].id \in EssayIds
  /\ isProcessing \in BOOLEAN
  /\ workflowMode \in WorkflowModes


----------------------------------------------------------------------------
(* One call of processEssayAgent, with every failure of its callees *)

AgentIdle ==
  UNCHANGED <<essays, nextId, abortControllers, isProcessing, workflowMode,
              env, tracked, runs, nextBatch, starts, issued, ended, storage,
              timeouts, ocr, client>>

\* the agent is called and runs to its first suspension
agentCall ==
  /\ agent.pc = "idle"
  /\ agent' = AgentEntry(agent, env.keyed)
  /\ AgentIdle

\* transcribeHandwriting settles inside the agent: a failure is caught and
\* the agent goes on with the text it has
agentOcrSettles ==
  /\ agent.pc = "ocr"
  /\ \E out \in (IF agent.aborted THEN {AbortError}
                 ELSE {"ok", MsgOcrKeyMissing} \cup OcrFailures) :
       agent' = AgentPrompt(
                  [agent EXCEPT !.text = IF out = "ok" THEN OcrTranscript ELSE @],
                  env.keyed)
  /\ AgentIdle

\* fileToBase64 settles: the image is read, or the reader fails
agentFileRead ==
  /\ agent.pc = "read"
  /\ \E ok \in BOOLEAN :
       agent' = IF ok THEN AgentRoute(agent, env.keyed)
                ELSE AgentResolves(agent, "file read failed")
  /\ AgentIdle

\* the provider request settles and JSON.parse runs on its text
agentModelSettles ==
  /\ agent.pc = "model"
  /\ \E out \in (IF agent.aborted THEN {AbortError}
                 ELSE GradingReplies \cup GradingFailures) :
       agent' = AgentResolves(agent, out)
  /\ AgentIdle

\* controller.abort() by the caller, before the call or while it is suspended
agentAbort ==
  /\ agent.pc /= "resolved"
  /\ ~agent.aborted
  /\ agent' = [agent EXCEPT !.aborted = TRUE]
  /\ AgentIdle

AgentNext ==
  \/ agentCall
  \/ agentOcrSettles
  \/ agentFileRead
  \/ agentModelSettles
  \/ agentAbort

AgentFields == CoreFields \cup {"agent"}

InitAgent == InitWith(AgentFields)

SpecAgent == InitAgent /\ [][AgentNext]_vars

----------------------------------------------------------------------------
(* The handlers again, with the batch tag of each essay followed *)

BatchFields == CoreFields \cup {"batchId"}

InitBatch == InitWith(BatchFields)

SpecBatch == InitBatch /\ [][Next]_vars

----------------------------------------------------------------------------
(* Properties *)

Present(id) == id \in IdsOf(essays)

\* a step outcome that is an error, a cancellation included
Failed(outcome) == outcome /= "ok" /\ outcome \notin GradingReplies

\* C1: in every reachable state an essay whose grading sub-status is done
\* has a grading result present
C1_DoneHasResult ==
  \A i \in 1..Len(essays) :
    essays[i].gradingStatus = "done" => essays[i].gradingResult /= Undef

\* C2: when the grading call of an essay fails for a reason other than
\* cancellation, the step that ends leaves the essay with status error,
\* grading sub-status error, progress step error and the failure's message
\* as its error message
C2_GradingFailureRecorded ==
  [][\A x \in ended' :
       (/\ x.kind = "grading"
        /\ Failed(x.outcome)
        /\ ~IsCancelled(x.outcome)
        /\ x.id \in IdsOf(essays'))
       => LET e == EssayOf(essays', x.id)
          IN  /\ e.status = ERROR
              /\ e.gradingStatus = "error"
              /\ e.progressStep = "error"
              /\ e.errorMessage = x.outcome]_vars

\* C3: when the user has cancelled an essay whose grading request is in
\* flight, the grading step ends with the essay cancelled (status cancelled,
\* progress step cancelled), and an essay at rest that is cancelled stays so
\* until a handler starts it again
C3_CancelledGradingStaysCancelled ==
  [][(\A x \in ended' :
        (x.kind = "grading" /\ IsCancelled(x.outcome)
           /\ x.id \in IdsOf(essays'))
        => LET e == EssayOf(essays', x.id)
           IN  e.status = CANCELLED /\ e.progressStep = "cancelled")
     /\
     (\A id \in IdsOf(essays) \cap IdsOf(essays') :
        (/\ EssayOf(essays, id).status = CANCELLED
         /\ EssayOf(essays', id).status /= CANCELLED)
        => \/ reload
           \/ \E c \in issued' : c.id = id
           \/ \E y \in ended' : y.id = id)]_vars

\* text that a transcription put in the essay: the OCR vendor's transcript or
\* the grading model's own
Captured(t) == t \in {OcrTranscript, ModelText}

\* C4: no OCR upload is issued for an essay that already holds non-empty
\* captured text
C4_NoOcrUploadWithText ==
  [][\A c \in issued' :
       (c.call = "ocr_upload" /\ Present(c.id))
       => ~Captured(EssayOf(essays, c.id).ocrText)]_vars

\* C7: in every reachable state an essay whose status is processing has a
\* controller registered under its id, and that controller belongs to a step
\* on this essay that is in flight
StepOf(ctrl) == runs[ctrl[1]].st[ctrl[2]]

C7_ProcessingHasController ==
  \A i \in 1..Len(essays) :
    essays[i].status = PROCESSING
    => LET ctrl == abortControllers[essays[i].id]
       IN  /\ ctrl /= NoCtrl
           /\ runs[ctrl[1]].kind /= "none"
           /\ runs[ctrl[1]].targets[ctrl[2]].id = essays[i].id
           /\ InFlight(StepOf(ctrl))

\* C9: a cancellation, and a step that ends in failure or cancellation,
\* leave the OCR text a handwritten essay had captured as it was
C9_CapturedTextKept ==
  [][\A id \in IdsOf(essays) \cap IdsOf(essays') :
       (/\ EssayOf(essays, id).submissionType = "image"
        /\ Captured(EssayOf(essays, id).ocrText)
        /\ \/ handleCancel(id)
           \/ \E x \in ended' : x.id = id /\ Failed(x.outcome))
       => EssayOf(essays', id).ocrText = EssayOf(essays, id).ocrText]_vars

\* C5: the retry of an essay that has OCR text issues nothing but the
\* grading request, at its start and after the file has been read: no call
\* of the OCR client (upload, then polls) is made
C5_RetryIssuesGradingOnly ==
  [][(\A id \in EssayIds :
        (handleRetry(id) /\ Truthy(EssayOf(essays, id).ocrText))
        => issued' \subseteq {Call("grading", id)})
     /\
     (\A r \in RunIds :
        (runs[r].kind = "retry" /\ FileRead(r, 1))
        => issued' \subseteq {Call("grading", runs[r].targets[1].id)})]_vars

C5_Witness ==
  \E r \in RunIds :
    /\ runs[r].kind = "retry"
    /\ runs[r].targets[1].submissionType = "image"
    /\ runs[r].targets[1].ocrText = OcrTranscript
    /\ runs[r].st[1] = "grading"
    /\ issued = {Call("grading", runs[r].targets[1].id)}

\* the OCR call of target i of run r is in flight and has been aborted
OcrAborted(r, i) ==
  /\ runs[r].kind = "queue"
  /\ i = runs[r].idx
  /\ i <= Len(runs[r].targets)
  /\ runs[r].st[i] = "ocr"
  /\ runs[r].ab[i]

\* no target of a run whose OCR step was cancelled is at its grading step
NoGradingAfterCancelledOcr ==
  \A r \in RunIds : \A i \in 1..Len(runs[r].targets) :
    runs[r].oc[i] = "cancelled" => runs[r].st[i] = "end"

Started(r, i) ==
  /\ runs'[r].kind /= "none"
  /\ i <= Len(runs'[r].targets)
  /\ InFlight(runs'[r].st[i])
  /\ \/ runs[r].kind = "none"
     \/ runs[r].st[i] = "todo"
     \/ runs[r].st[i] = "ocr" /\ runs'[r].st[i] /= "ocr"

\* a controller in the registry belongs to a step on that essay in flight
NoLeak ==
  \A id \in EssayIds :
    LET ctrl == abortControllers[id]
    IN  ctrl /= NoCtrl
        => /\ runs[ctrl[1]].kind /= "none"
           /\ ctrl[2] <= Len(runs[ctrl[1]].targets)
           /\ runs[ctrl[1]].targets[ctrl[2]].id = id
           /\ InFlight(StepOf(ctrl))

\* C8: a step that starts puts its controller in the registry under the
\* essay's id, and whenever no step is in flight for an essay the registry
\* holds no controller under its id, however the steps have ended
C8_ControllerRegisteredWhileInFlight ==
  [][(\A r \in RunIds : \A i \in 1..MaxEssays :
        Started(r, i)
        => abortControllers'[runs'[r].targets[i].id] = <<r, i>>)
     /\ NoLeak']_vars

C8_Witness ==
  /\ \E x \in ended : IsCancelled(x.outcome) /\ abortControllers[x.id] = NoCtrl
  /\ \E id \in EssayIds : abortControllers[id] /= NoCtrl

\* target i of the queue or batch run r ends in this action
TargetEnds(r, i) ==
  /\ runs[r].kind \in {"queue", "batch"}
  /\ i \in 1..Len(runs[r].targets)
  /\ runs[r].st[i] /= "end"
  /\ runs'[r].kind = "none" \/ runs'[r].st[i] = "end"
  /\ ~reload

\* the targets of run r other than i that have not ended
Others(r, i) ==
  {j \in 1..Len(runs[r].targets) \ {i} : runs[r].st[j] /= "end"}

\* C10: when the step of one target of a start-queue or batch-grade run
\* ends in failure or cancellation while other targets are left, the run
\* goes on: the other targets keep their place, the queue's next target
\* is up next, and the handler returns only when no target is left
C10_RunContinuesAfterFailure ==
  [][\A r \in RunIds : \A i \in 1..MaxEssays :
       TargetEnds(r, i)
       => /\ runs'[r].kind = "none" => Others(r, i) = {}
          /\ (/\ Others(r, i) /= {}
              /\ \E x \in ended' :
                   x.id = runs[r].targets[i].id /\ Failed(x.outcome))
             => /\ runs'[r].kind = runs[r].kind
                /\ \A j \in Others(r, i) : runs'[r].st[j] = runs[r].st[j]
                /\ runs[r].kind = "queue"
                     => runs'[r].idx = i + 1 /\ runs'[r].st[i + 1] = "todo"]_vars

C10_Witness ==
  \E r \in RunIds :
    /\ runs[r].kind = "queue"
    /\ Len(runs[r].targets) = 2
    /\ runs[r].oc[1] = "failed"
    /\ InFlight(runs[r].st[2])
    /\ Present(runs[r].targets[1].id)
    /\ EssayOf(essays, runs[r].targets[1].id).status = ERROR

StepsAt(id, ph) ==
  {c \in RunIds \X (1..MaxEssays) :
     /\ c[2] <= Len(runs[c[1]].targets)
     /\ runs[c[1]].targets[c[2]].id = id
     /\ runs[c[1]].st[c[2]] = ph}

\* C12: the OCR call and the grading request of one essay are never in
\* flight at the same time, and a start-queue run issues the grading
\* request of a target only when the target's OCR step has resolved or was
\* not needed
C12_OcrBeforeGrading ==
  [][(\A id \in EssayIds :
        StepsAt(id, "ocr") = {} \/ StepsAt(id, "grading") = {})'
     /\
     (\A r \in RunIds : \A i \in 1..MaxEssays :
        (/\ runs'[r].kind = "queue"
         /\ i <= Len(runs'[r].targets)
         /\ runs'[r].st[i] \in {"read", "grading"})
        => runs'[r].oc[i] \in {"none", "done", "nofile"})]_vars

\* the essays batch grade is to take: grading not done, not processing, text
BatchEligible ==
  {id \in EssayIds :
     /\ Present(id)
     /\ EssayOf(essays, id).gradingStatus /= "done"
     /\ EssayOf(essays, id).status /= PROCESSING
     /\ hasTextContent(EssayOf(essays, id))}

\* C13: batch grade starts the grading step of exactly the essays whose
\* grading is not done, that are not processing and that have text, and it
\* starts all of them at once: every target's request is issued (or, with
\* no provider key, every target's step has failed) before any of them ends
C13_BatchStartsAllTargets ==
  [][handleBatchAi
     => /\ {x.id : x \in issued' \cup ended'} = BatchEligible
        /\ \A id \in BatchEligible :
             IF env.keyed
             THEN Call("grading", id) \in issued'
             ELSE End("grading", id, MsgKeyMissing) \in ended']_vars

C13_Witness ==
  \E r \in RunIds :
    /\ runs[r].kind = "batch"
    /\ Len(runs[r].targets) = 2
    /\ runs[r].st = <<"grading", "grading">>
    /\ issued = {Call("grading", 1), Call("grading", 2)}
    /\ \A id \in 1..2 : EssayOf(essays, id).gradingStatus = "processing"

\* a step of the start-queue run r: the loop takes a target, or a call of
\* the run settles
QueueStep(r) ==
  /\ runs[r].kind = "queue"
  /\ \/ QueueNext(r)
     \/ OcrEnd(r)
     \/ \E i \in 1..MaxEssays : FileRead(r, i) \/ GradingEnd(r, i)

C15_CallsOnlyWhenNeeded ==
  [][\A r \in RunIds :
       QueueStep(r)
       => \A x \in issued' :
            Present(x.id)
            => /\ x.call = "ocr_upload" => needsOcr(EssayOf(essays, x.id))
               /\ x.call = "grading" => needsAi(EssayOf(essays, x.id))]_vars

\* C16: an essay stored with status processing is loaded as pending, with
\* neither sub-status processing (a sub-status stored as processing is
\* loaded as idle) and with the resume message
C16_InterruptedLoadsPending ==
  [][reloadPage
     => \A i \in 1..Len(storage.essays) :
          storage.essays[i].status = PROCESSING
          => /\ essays'[i].status = PENDING
             /\ essays'[i].ocrStatus /= "processing"
             /\ essays'[i].gradingStatus /= "processing"
             /\ storage.essays[i].ocrStatus = "processing"
                => essays'[i].ocrStatus = "idle"
             /\ storage.essays[i].gradingStatus = "processing"
                => essays'[i].gradingStatus = "idle"
             /\ essays'[i].progressMessage = MsgResume]_vars

\* the stored essay is an image with neither OCR text nor raw text
LacksSource(e) ==
  e.submissionType = "image" /\ ~Truthy(e.ocrText) /\ ~Truthy(e.rawText)

\* C17: a stored image essay with neither OCR text nor raw text is loaded
\* with status error and the re-upload message; any other stored essay is
\* not marked: it is loaded as an error, or with the re-upload message, only
\* if it was stored so
C17_MissingSourceMarked ==
  [][reloadPage
     => \A i \in 1..Len(storage.essays) :
          IF LacksSource(storage.essays[i])
          THEN /\ essays'[i].status = ERROR
               /\ essays'[i].progressMessage = MsgReupload
               /\ Truthy(essays'[i].errorMessage)
          ELSE /\ essays'[i].status = ERROR
                  => storage.essays[i].status = ERROR
               /\ essays'[i].progressMessage = MsgReupload
                  => storage.essays[i].progressMessage = MsgReupload
               /\ essays'[i].ocrText = storage.essays[i].ocrText]_vars

\* just after a load that marked a stored pending image and left a stored
\* text essay as it was
C17_Witness ==
  /\ storage.present
  /\ Len(storage.essays) = 2
  /\ Len(essays) = 2
  /\ timeouts = <<Timeout(essays)>>
  /\ \E i, j \in 1..2 :
       /\ LacksSource(storage.essays[i])
       /\ storage.essays[i].status = PENDING
       /\ essays[i].status = ERROR
       /\ essays[i].progressMessage = MsgReupload
       /\ ~LacksSource(storage.essays[j])
       /\ essays[j] = storage.essays[j]

\* C18: a save of an empty list removes the stored entry.  Clear-all leaves
\* no entry at once; when the list is empty and no save is pending, there is
\* no entry and a load returns the empty list.
C18_EmptyListRemovesEntry ==
  [][(handleClearAll => ~storage'.present)
     /\
     ((PersistFires /\ essays = <<>>) => ~storage'.present)
     /\
     ((essays' = <<>> /\ timeouts' = <<>>)
        => ~storage'.present /\ loadPersistedEssays(storage') = <<>>)]_vars

\* an essay was stored, the list was emptied, and the save has run
C18_Witness ==
  /\ nextId > 1
  /\ essays = <<>>
  /\ timeouts = <<>>
  /\ ~storage.present
  /\ ~isProcessing

\* C19: the save is debounced.  Every change of the list cancels the pending
\* save and schedules one 600 ms later for the new list; at most one save is
\* pending; a save runs only when its 600 ms have passed, no other save is
\* left waiting, and what it stores is the list as of the last change.
C19_SaveIsDebounced ==
  [][(essays' /= essays => timeouts' = <<Timeout(essays')>>)
     /\
     (Len(timeouts') <= 1)
     /\
     (PersistFires => timeouts[1].left = 0 /\ timeouts' = <<>>)
     /\
     (storage' /= storage => storage' = persistEssays(essays'))]_vars

\* a first essay was saved; a second one was added 300 ms ago and its save
\* is pending
C19_Witness ==
  /\ storage.present
  /\ Len(storage.essays) = 1
  /\ Len(essays) = 2
  /\ timeouts = <<[left |-> TickMs, essays |-> essays]>>

NeverSettled ==
  /\ ocr.pc \in {"returned", "thrown"}
  /\ ~ocr.aborted
  /\ ocr.seen /= <<>>
  /\ \A j \in 1..Len(ocr.seen) :
       ocr.seen[j].status \notin {"processed", "failed"}

\* C21: a call whose requests all settle ends; when no status request is
\* answered with processed or failed, it ends once the attempt cap or the
\* time cap is met, with the timeout error that names the document id
C21_PollingTerminates ==
  /\ <>(ocr.pc \in {"returned", "thrown"})
  /\ [](NeverSettled
        => /\ ocr.pc = "thrown"
           /\ ocr.out = MsgTimedOut
           /\ MsgTimedOut[2] = DocumentId
           /\ \/ ocr.attempt >= ocr.options.maxAttempts
              \/ ocr.elapsed >= ocr.options.maxWaitMs)

\* the attempt cap of 2 met by two processing answers and a third after the
\* loop
C21_Witness ==
  /\ NeverSettled
  /\ ocr.options.maxAttempts = ShortAttempts
  /\ ocr.options.maxWaitMs = DefaultMaxWaitMs
  /\ ocr.attempt = ShortAttempts
  /\ ocr.polls = ShortAttempts + 1
  /\ ocr.out = MsgTimedOut

\* C22: a vendor client whose key is not set (the OCR client's upload and
\* status request, the OpenAI, DeepSeek, OpenRouter and Gemini adapters)
\* issues no request and ends with the error that names the missing key
C22_MissingKeyFailsFast ==
  KeyOf(client.fn) \notin client.keys
  => /\ client.fetches = 0
     /\ client.pc \in {"idle", "thrown"}
     /\ client.pc = "thrown"
        => /\ client.out = MissingKeyError(client.fn)
           /\ client.out[2] = "API key is missing"

\* the DeepSeek adapter called with the OpenAI key set and its own missing
C22_Witness ==
  /\ client.fn = "deepseek"
  /\ client.keys = {"openai", "ocr"}
  /\ client.pc = "thrown"
  /\ client.out = <<"DeepSeek", "API key is missing">>
  /\ client.fetches = 0

\* C23: once the signal is aborted, the call issues no upload and no status
\* request, returns no result, and when it ends it ends with a cancellation
\* error: the abort error of fetch or the message "Processing cancelled"
C23_AbortEndsWithCancellation ==
  [][ocr.aborted
     => /\ ocr'.uploads = ocr.uploads
        /\ ocr'.polls = ocr.polls
        /\ ocr'.pc /= "returned"
        /\ ocr'.pc = "thrown"
           => ocr'.out \in {<<AbortError>>, <<FetchAborted>>}]_vars

\* the place of an OCR sub-status on idle -> processing -> {done, error,
\* skipped}
OcrRank(a) == IF a = "idle" THEN 0 ELSE IF a = "processing" THEN 1 ELSE 2

\* the action is the cancellation of essay id, or ends a cancelled step of it
ByCancellation(id) ==
  \/ handleCancel(id)
  \/ \E x \in ended' : x.id = id /\ IsCancelled(x.outcome)

\* C24: an essay's OCR sub-status moves only forward along idle ->
\* processing -> {done, error, skipped}: a change made by a start-queue run,
\* a retry, a grade or a load never takes it back from done, error or
\* skipped to processing or idle, nor from processing to idle; only an
\* action that is the effect of a cancellation may
C24_OcrStatusOnlyAdvances ==
  [][\A id \in IdsOf(essays) \cap IdsOf(essays') :
       \/ OcrRank(EssayOf(essays', id).ocrStatus)
            >= OcrRank(EssayOf(essays, id).ocrStatus)
       \/ ByCancellation(id)]_vars

\* the place of a progress step on queued -> ocr -> ocr_complete -> grading
\* -> done
StepRank(a) ==
  IF a = "queued" THEN 0
  ELSE IF a = "ocr" THEN 1
  ELSE IF a = "ocr_complete" THEN 2
  ELSE IF a = "grading" THEN 3
  ELSE 4

StepsOfPath == {"queued", "ocr", "ocr_complete", "grading", "done"}

\* a step of essay id ends in this action: the essay was at ocr or grading
\* when the step's last write was made, even when the step has started in
\* the same action
StepEnds(id) == \E x \in ended' : x.id = id

\* C25: a handler changes an essay's progress step from a step of queued ->
\* ocr -> ocr_complete -> grading -> done only to a later step of that path,
\* or, from ocr or grading, to error or cancelled (what follows error or
\* cancelled, and a load, are left open)
C25_ProgressStepOnlyAdvances ==
  [][~reload
     => \A id \in IdsOf(essays) \cap IdsOf(essays') :
          LET a == EssayOf(essays, id).progressStep
              b == EssayOf(essays', id).progressStep
          IN  \/ a = b
              \/ a \notin StepsOfPath
              \/ b \in StepsOfPath /\ StepRank(b) > StepRank(a)
              \/ /\ b \in {"error", "cancelled"}
                 /\ a \in {"ocr", "grading"} \/ StepEnds(id)]_vars

\* the status request that settles in this action is answered by reply and
\* the loop goes on to its wait
Answered(reply) ==
  /\ ocr.pc = "poll"
  /\ ocr'.pc = "wait"
  /\ ocr'.seen = Append(ocr.seen, fetchDocumentStatus(reply))

\* C26: after a status poll answered 429 with a Retry-After header of s
\* seconds the wait is at least s * 1000 ms, and the next status request is
\* sent only when that wait has passed
C26_RetryAfterIsHonoured ==
  [][(\A reply \in PollReplies :
        (Answered(reply) /\ reply.http = 429 /\ reply.retryAfter /= NoRetryAfter)
        => ocr'.waitMs >= reply.retryAfter * 1000)
     /\
     ((ocr.pc = "wait" /\ ocr'.polls > ocr.polls)
        => ocr'.elapsed - ocr.elapsed >= ocr.waitMs)]_vars

C26_Witness ==
  /\ ocr.pc = "poll"
  /\ ocr.polls > 1
  /\ ocr.seen[Len(ocr.seen)].httpStatus = 429
  /\ ocr.seen[Len(ocr.seen)].retryAfterMs = 5000
  /\ ocr.waitMs = 5000
  /\ ocr.elapsed >= 5000

\* the status request that settles in this action is answered 429 without a
\* Retry-After header
RateLimitedBare ==
  \E reply \in PollReplies :
    Answered(reply) /\ reply.http = 429 /\ reply.retryAfter = NoRetryAfter

\* C27: after a status poll answered 429 without a Retry-After header the
\* wait is double the current delay, up to a ceiling of 30 seconds
C27_WaitDoublesUpTo30s ==
  [][RateLimitedBare => ocr'.waitMs = Min(2 * ocr.dynamicDelay, 30000)]_vars

\* C27 as stated: the wait is double the current delay, up to a ceiling of
\* 45 seconds
C27_WaitDoublesUpTo45s ==
  [][RateLimitedBare => ocr'.waitMs = Min(2 * ocr.dynamicDelay, 45000)]_vars

\* the doubled delay was above the ceiling: after a 429 with Retry-After 60
\* the delay is 45000, and the 429 without the header that follows waits
\* 30000
C27_Witness ==
  /\ ocr.pc = "wait"
  /\ Len(ocr.seen) = 2
  /\ ocr.seen[1].retryAfterMs = 60000
  /\ ocr.seen[2].httpStatus = 429
  /\ ocr.seen[2].retryAfterMs = NoRetryAfter
  /\ ocr.waitMs = 30000

\* C28: the polling delay is carried forward and grows monotonically: the
\* delay after a loop iteration that goes on to its wait, whatever the poll's
\* answer (processing, 429 with or without Retry-After, 404), is never
\* smaller than the delay before it
C28_DelayNeverShrinks ==
  [][(ocr.pc = "poll" /\ ocr'.pc = "wait")
     => ocr'.dynamicDelay >= ocr.dynamicDelay]_vars

\* the pages of a results array in the order of their page numbers
RECURSIVE ByPageNumber(_)
ByPageNumber(results) ==
  IF results = <<>> THEN <<>>
  ELSE LET i == CHOOSE k \in 1..Len(results) :
                  \A j \in 1..Len(results) :
                    results[k].page_number <= results[j].page_number
       IN  <<results[i]>>
           \o ByPageNumber([j \in 1..(Len(results) - 1) |->
                              IF j < i THEN results[j] ELSE results[j + 1]])

\* C29: whatever the order in which the vendor lists the pages of a
\* processed result, the transcript returned is the pages' transcripts in the
\* order of their page numbers, joined by blank lines and trimmed
C29_TranscriptInPageOrder ==
  [][(ocr.pc /= "returned" /\ ocr'.pc = "returned")
     => ocr'.out
          = collectTranscript(ByPageNumber(ocr'.seen[Len(ocr'.seen)].results))]_vars

\* C30: when a status request is answered with processed and a non-empty
\* transcript, the call returns that transcript whichever of the side
\* channels fail (the download, its data-URI fallback, the localStorage
\* copy, the post to the save server)
C30_SideChannelsNeverFailTheCall ==
  [][((PollReturns \/ FinalReturns) /\ ocr'.seen /= ocr.seen)
     => LET last == ocr'.seen[Len(ocr'.seen)]
        IN  (last.status = "processed" /\ collectTranscript(last.results) /= <<>>)
            => /\ ocr'.pc = "returned"
               /\ ocr'.out = collectTranscript(last.results)]_vars

\* C31: whenever the grading call of an essay that has OCR text is in
\* flight, the essay text in its prompt is that OCR text, whatever the
\* essay's raw text
C31_PromptHoldsOcrText ==
  \A r \in RunIds :
    runs[r].kind /= "none"
    => \A i \in 1..Len(runs[r].targets) :
         (runs[r].st[i] = "grading" /\ Truthy(Trim(runs[r].targets[i].ocrText)))
         => BaseText(AgentArg(runs[r].targets[i]))
              = Trim(runs[r].targets[i].ocrText)

\* C32: a call of processEssayAgent that ends resolves with an essay whose
\* status is completed, error or cancelled, whichever of its callees failed
\* (the OCR, the prompt building, the provider call, JSON.parse), and the
\* status is completed only when the provider's text was parsed
C32_AgentAlwaysResolves ==
  /\ agent.pc \in {"idle", "ocr", "read", "model", "resolved"}
  /\ agent.pc = "resolved"
     => /\ agent.out.status \in {COMPLETED, ERROR, CANCELLED}
        /\ agent.out.status = COMPLETED => agent.failed = Undef

\* an image essay without text, given with a status of processing: the
\* agent's own OCR failed, the file was read, the provider's answer did not
\* parse, and the call resolved with status error
C32_Witness ==
  /\ agent.pc = "resolved"
  /\ ~agent.skipOcr
  /\ agent.essay.submissionType = "image"
  /\ agent.essay.status = PROCESSING
  /\ agent.text = ""
  /\ agent.failed = "Unexpected token"
  /\ agent.out.status = ERROR

\* the steps in flight for essay id: run and target index
StepsInFlight(id) ==
  {c \in RunIds \X (1..MaxEssays) :
     /\ runs[c[1]].kind /= "none"
     /\ c[2] <= Len(runs[c[1]].targets)
     /\ runs[c[1]].targets[c[2]].id = id
     /\ InFlight(runs[c[1]].st[c[2]])}

\* C33: whatever the interleaving of start-queue, batch grade, retry and
\* single-essay start, at most one OCR or grading step is in flight for an
\* essay id, and the controller registered under the id is that step's
C33_OneStepPerEssay ==
  \A id \in EssayIds :
    /\ Cardinality(StepsInFlight(id)) <= 1
    /\ \A c \in StepsInFlight(id) : abortControllers[id] = c

\* C34: isProcessing is true in every state in which a step started by
\* start-queue, batch grade, retry or single-essay start is in flight
C34_BusyWhileInFlight ==
  (\E id \in EssayIds : StepsInFlight(id) /= {}) => isProcessing

\* every handler has returned: no run is left
HandlersFinished == \A r \in RunIds : runs[r].kind = "none"

\* C35: every network call having returned or failed, an essay whose status
\* became processing has got another status: once all handlers have
\* finished, no essay is left with status processing
C35_NoEssayLeftProcessing ==
  HandlersFinished
    => \A i \in 1..Len(essays) : essays[i].status /= PROCESSING

\* an essay that was uploaded and is no longer in the collection
Deleted(id) == id < nextId /\ id \notin IdsOf(essays)

\* C36: once an essay is deleted no OCR upload and no grading request is
\* started for it, also when a start-queue run in progress had it as a
\* target, and no step completion puts it back in the collection
C36_DeletedEssayIsLeftAlone ==
  [][\A id \in EssayIds :
       Deleted(id) => (/\ \A c \in issued' : c.id /= id
                       /\ id \notin IdsOf(essays'))]_vars

\* C37: completing an OCR or grading step does not change the batch tag of
\* the essay, so at the end of a start-queue or batch-grade run every target
\* still in the collection carries the batch id the run gave it, also when
\* it carried the id of an earlier run.  (A step that handleBatchAi starts
\* and ends at once leaves the tag that this call has just written.)
C37_StepKeepsBatchTag ==
  [][\A id \in IdsOf(essays) \cap IdsOf(essays') :
       (\E x \in ended' : x.id = id)
         => EssayOf(essays', id).batchId =
              IF nextBatch' /= nextBatch THEN nextBatch
              ELSE EssayOf(essays, id).batchId]_vars

\* C38: an essay's status is completed exactly when its grading sub-status
\* is done: error, cancelled or processing never goes with gradingStatus done
C38_CompletedIffGradingDone ==
  \A i \in 1..Len(essays) :
    essays[i].status = COMPLETED <=> essays[i].gradingStatus = "done"

\* an essay that a load changes on purpose: interrupted, or an image
\* without any text
ChangedOnLoad(e) ==
  \/ e.status = PROCESSING
  \/ e.submissionType = "image" /\ ~Truthy(e.ocrText) /\ ~Truthy(e.rawText)

\* every field but the file handle
SameButFile(a, b) == \A f \in DOMAIN a \ {"file"} : a[f] = b[f]

====
